---- MODULE Spec2Model ----
(***************************************************************************)
(* Model of rx_calibration.hltcalibration: MCFitter (mc_fitter.py) and     *)
(* FitComponent (fit_component.py).                                        *)
(*                                                                         *)
(* The minimizer, the Hessian step, the data extraction and the renderer   *)
(* are external services: what they return (fitted values, uncertainties)  *)
(* and whether they raise is an input drawn with \E.  The model object     *)
(* (pdf) is a map from parameter name to value and floating flag; its      *)
(* get_params() enumerates the named parameters.  The persisted record is  *)
(* a file of (name, value, error) rows at {out_dir}/{name}.json.           *)
(*                                                                         *)
(* MCFitter.run() is cut where it touches the file system (the existence   *)
(* check, the write, the read), because nothing locks the record and two   *)
(* runs may interleave there; FitComponent.get_pdf() is one action.        *)
(***************************************************************************)
EXTENDS Integers, Sequences, FiniteSets, TLC

VARIABLES
    self,      \* runner -> the attributes __init__ stored, None before it
    pdf,       \* runner -> its model: name -> [value, floating]
    pc,        \* runner -> "none", "idle", or where its run() stands
    par,       \* runner -> the local par of run() / get_pdf()
    trace,     \* runner -> the external calls its last call invoked, in order
    ret,       \* runner -> what its last call returned or raised
    fs,        \* path -> the record stored there
    plotting,  \* the caller's plotting options map, shared by reference
    wrote,     \* path -> the writes made there, in order (history)
    last       \* the operation of the last step (history)

vars == <<self, pdf, pc, par, trace, ret, fs, plotting, wrote, last>>

\* ------------------------------------------------------------------ bounds
\* fitted values returned by the minimizer range over 1..MaxVal
MaxVal == 2

Values == 1 .. MaxVal
\* Hessian uncertainties reported by the fit engine
Errors == {1}

\* ------------------------------------------------------------- vocabulary
Runners == {"r1", "r2"}

\* Python's None, where a record and where a string is expected
None    == [none |-> TRUE]
NoneStr == "None"

\* parameter names are character sequences, so that endswith is computed
sg     == <<"s", "g">>
mu_flt == <<"m", "u", "_", "f", "l", "t">>
_flt   == <<"_", "f", "l", "t">>

ParNames == {sg, mu_flt}

OutDirs == {"d1"}

FitCfgs == [error_method : {"minuit_hesse", "bootstrap"}, weights_column : {"weights"}]

\* the configuration maps a caller can pass; 'plotting' is a reference to the
\* one mutable options map of the state (variable plotting)
Cfgs == [name     : {"signal"},
         fitting  : {None} \cup FitCfgs,
         plotting : {NoneStr, "ref"},
         out_dir  : {NoneStr} \cup OutDirs]

\* a dataframe is known by its columns; ones are the columns defined as 1
Rdfs == {[cols |-> {"mass"}, ones |-> {}], [cols |-> {"mass", "weights"}, ones |-> {}]}

\* the plotting option maps a caller can build
PlotMaps == {[nbins |-> 50], [plot_dir |-> "plots", nbins |-> 50, stacked |-> TRUE]}

\* which external call raises during one invocation
Failures == {"none", "AsNumpy", "minimize", "hesse", "plot"}

\* ---------------------------------------------------------- return values
NotCalled    == [t |-> "none"]
RetPdf       == [t |-> "pdf"]
RetPar(p)    == [t |-> "par", par |-> p]
Raised(e)    == [t |-> "err", e |-> e]

\* ------------------------------------------------------------ pure helpers
\* str.endswith
EndsWith(s, suf) ==
    /\ Len(s) >= Len(suf)
    /\ SubSeq(s, Len(s) - Len(suf) + 1, Len(s)) = suf

\* a model as built by the caller: every parameter at its initial value,
\* floating unless the caller created it fixed
NewPdf(fixed) == [n \in ParNames |-> [value |-> 0, floating |-> n \notin fixed]]

\* BasePDF.get_params(): the named parameters of the model, each with its
\* value and floating flag
get_params(p) == DOMAIN p

\* the parameters a minimization varies
Floating(p) == {n \in DOMAIN p : p[n].floating}

\* Parameter.to_json: one (name, value, error) row per parameter
to_json(P) == [rows |-> {<<n, P[n][1], P[n][2]>> : n \in DOMAIN P}]

\* Parameter.from_json: rebuild the mapping from the rows
from_json(J) ==
    [n \in {row[1] : row \in J.rows} |->
        LET row == CHOOSE w \in J.rows : w[1] = n IN <<row[2], row[3]>>]

\* the file system: path -> the record written there, or None when no file
NoFile == None

pars_path(s) == <<s.out_dir, s.name>>

Paths == {<<d, "signal">> : d \in OutDirs}

\* variant: the check looks at a path that nothing ever writes
isfile_other_path(path) == FALSE

isfile(path) == fs[path] # NoFile

\* ------------------------------------------------- methods of both classes
\* _add_weights: define the weights column as ones unless the source has it
_add_weights(rdf, wgt_name) ==
    IF wgt_name \in rdf.cols
    THEN rdf
    ELSE [cols |-> rdf.cols \cup {wgt_name}, ones |-> rdf.ones \cup {wgt_name}]

\* _get_data: the weighted dataset, or the error raised while building it
_get_data(s, fail) ==
    IF s.fit_cfg = None
    THEN [raised |-> "ValueError", data |-> None, ev |-> <<>>]
    ELSE LET weights_column == s.fit_cfg.weights_column
             rdf            == _add_weights(s.rdf, weights_column)
         IN  IF fail = "AsNumpy"
             THEN [raised |-> "AsNumpy", data |-> None, ev |-> <<"data">>]
             ELSE [raised |-> "",
                   data   |-> [obs     |-> "mass",
                               weights |-> IF weights_column \in rdf.ones
                                           THEN "ones" ELSE "column"],
                   ev     |-> <<"data">>]

\* _res_to_par: reject every error method but minuit_hesse, run the Hessian
\* step, copy (value, error) of every fitted parameter
_res_to_par(s, res, fail, errs) ==
    IF s.fit_cfg = None
    THEN [raised |-> "ValueError", par |-> <<>>, ev |-> <<>>]
    ELSE IF s.fit_cfg.error_method # "minuit_hesse"
    THEN [raised |-> "NotImplementedError", par |-> <<>>, ev |-> <<>>]
    ELSE IF fail = "hesse"
    THEN [raised |-> "hesse", par |-> <<>>, ev |-> <<"hesse">>]
    ELSE [raised |-> "",
          par    |-> [n \in DOMAIN res |-> <<res[n], errs[n]>>],
          ev     |-> <<"hesse">>]

\* the minimizer moves the floating parameters of the model to vals, the
\* values its result then reports; fixed parameters are not varied
minimize(p, vals) ==
    [n \in DOMAIN p |-> IF n \in DOMAIN vals
                        THEN [value |-> vals[n], floating |-> p[n].floating]
                        ELSE p[n]]

\* _fit: minimize the likelihood, then _res_to_par on the result
_fit(s, p, fail, vals, errs) ==
    LET q == minimize(p, vals) IN
    IF fail = "minimize"
    THEN [raised |-> "minimize", pdf |-> q, par |-> <<>>, ev |-> <<"minimize">>]
    ELSE LET o == _res_to_par(s, vals, fail, errs)
         IN  [raised |-> o.raised, pdf |-> q, par |-> o.par,
              ev |-> <<"minimize">> \o o.ev]

\* variant: the fitted parameters are set but left floating
MCFitter_fix_tails_floating(p, sig_par) ==
    [name \in get_params(p) |->
        IF name \notin DOMAIN sig_par THEN p[name]
        ELSE IF EndsWith(name, _flt) THEN p[name]
        ELSE [value |-> sig_par[name][1], floating |-> TRUE]]

\* variant: no test of the _flt suffix
MCFitter_fix_tails_all(p, sig_par) ==
    [name \in get_params(p) |->
        IF name \notin DOMAIN sig_par THEN p[name]
        ELSE [value |-> sig_par[name][1], floating |-> FALSE]]

\* MCFitter._fix_tails: set and freeze the fitted parameters but the _flt ones
MCFitter_fix_tails(p, sig_par) ==
    [name \in get_params(p) |->
        IF name \notin DOMAIN sig_par THEN p[name]
        ELSE IF EndsWith(name, _flt) THEN p[name]
        ELSE [value |-> sig_par[name][1], floating |-> FALSE]]

\* FitComponent._fix_tails: set the fitted parameters and leave them floating
FitComponent_fix_tails(p, sig_par) ==
    [name \in get_params(p) |->
        IF name \notin DOMAIN sig_par THEN p[name]
        ELSE IF EndsWith(name, _flt) THEN p[name]
        ELSE [value |-> sig_par[name][1], floating |-> TRUE]]

\* MCFitter._plot_fit: skipped without a plotting section; the options map
\* is only read
MCFitter_plot_fit(s, fail) ==
    IF s.plt_cfg = NoneStr
    THEN [raised |-> "", ev |-> <<>>]
    ELSE IF fail = "plot"
    THEN [raised |-> "plot", ev |-> <<"plot">>]
    ELSE [raised |-> "", ev |-> <<"plot">>]

\* variant: plot_dir is read and the options map is left as it was
FitComponent_plot_fit_keep(s, m, fail) ==
    IF s.plt_cfg = NoneStr
    THEN [raised |-> "", plotting |-> m, ev |-> <<>>]
    ELSE IF "plot_dir" \notin DOMAIN m
    THEN [raised |-> "KeyError", plotting |-> m, ev |-> <<>>]
    ELSE IF fail = "plot"
    THEN [raised |-> "plot", plotting |-> m, ev |-> <<"plot">>]
    ELSE [raised |-> "",     plotting |-> m, ev |-> <<"plot">>]

\* FitComponent._plot_fit: takes plot_dir out of the options map m, then
\* renders with what is left
FitComponent_plot_fit(s, m, fail) ==
    IF s.plt_cfg = NoneStr
    THEN [raised |-> "", plotting |-> m, ev |-> <<>>]
    ELSE IF "plot_dir" \notin DOMAIN m
    THEN [raised |-> "KeyError", plotting |-> m, ev |-> <<>>]
    ELSE LET rest == [k \in DOMAIN m \ {"plot_dir"} |-> m[k]]
         IN  IF fail = "plot"
             THEN [raised |-> "plot", plotting |-> rest, ev |-> <<"plot">>]
             ELSE [raised |-> "",     plotting |-> rest, ev |-> <<"plot">>]

\* ------------------------------------------------------------ construction
\* __init__ of either class: keep name, the fitting and plotting sections,
\* the dataframe and the model; MCFitter reads out_dir when it will fit
Construct(r) ==
    /\ pc[r] \in {"none", "idle"}
    /\ \E cls \in {"MCFitter", "FitComponent"}, cfg \in Cfgs,
          rdf \in {None} \cup Rdfs,
          model \in {pdf[r], NewPdf({}), NewPdf({sg})} :
         IF cls = "MCFitter" /\ cfg.fitting # None /\ cfg.out_dir = NoneStr
         THEN /\ self' = [self EXCEPT ![r] = None]
              /\ pc'   = [pc   EXCEPT ![r] = "none"]
              /\ ret'  = [ret  EXCEPT ![r] = Raised("KeyError")]
              /\ UNCHANGED pdf
         ELSE /\ self' = [self EXCEPT ![r] =
                    [cls     |-> cls,
                     name    |-> cfg.name,
                     fit_cfg |-> cfg.fitting,
                     plt_cfg |-> cfg.plotting,
                     out_dir |-> IF cls = "MCFitter" /\ cfg.fitting # None
                                 THEN cfg.out_dir ELSE NoneStr,
                     rdf     |-> rdf]]
              /\ pdf' = [pdf EXCEPT ![r] = model]
              /\ pc'  = [pc  EXCEPT ![r] = "idle"]
              /\ ret' = [ret EXCEPT ![r] = NotCalled]
    /\ par'   = [par   EXCEPT ![r] = <<>>]
    /\ trace' = [trace EXCEPT ![r] = <<>>]
    /\ last'  = [op |-> "Construct", r |-> r]
    /\ UNCHANGED <<fs, plotting, wrote>>

\* ------------------------------------------------------------ MCFitter.run
\* variant: the dataframe is tested before the fitting section
RunStart_rdf_first(r) ==
    /\ pc[r] = "idle"
    /\ self[r].cls = "MCFitter"
    /\ par'   = [par   EXCEPT ![r] = <<>>]
    /\ trace' = [trace EXCEPT ![r] = <<>>]
    /\ last'  = [op |-> "RunStart", r |-> r]
    /\ IF self[r].rdf = None
       THEN /\ ret' = [ret EXCEPT ![r] = Raised("ValueError")]
            /\ UNCHANGED pc
       ELSE IF self[r].fit_cfg = None
       THEN /\ ret' = [ret EXCEPT ![r] = RetPdf]
            /\ UNCHANGED pc
       ELSE /\ ret' = [ret EXCEPT ![r] = NotCalled]
            /\ pc'  = [pc EXCEPT ![r] =
                          IF ~ isfile(pars_path(self[r])) THEN "fresh" ELSE "cached"]
    /\ UNCHANGED <<self, pdf, fs, plotting, wrote>>

\* variant: the record is reused only under a supported error method
RunStart_method_checked(r) ==
    /\ pc[r] = "idle"
    /\ self[r].cls = "MCFitter"
    /\ par'   = [par   EXCEPT ![r] = <<>>]
    /\ trace' = [trace EXCEPT ![r] = <<>>]
    /\ last'  = [op |-> "RunStart", r |-> r]
    /\ IF self[r].fit_cfg = None
       THEN /\ ret' = [ret EXCEPT ![r] = RetPdf]
            /\ UNCHANGED pc
       ELSE IF self[r].rdf = None
       THEN /\ ret' = [ret EXCEPT ![r] = Raised("ValueError")]
            /\ UNCHANGED pc
       ELSE /\ ret' = [ret EXCEPT ![r] = NotCalled]
            /\ pc'  = [pc EXCEPT ![r] =
                          IF \/ ~ isfile(pars_path(self[r]))
                             \/ self[r].fit_cfg.error_method # "minuit_hesse"
                          THEN "fresh" ELSE "cached"]
    /\ UNCHANGED <<self, pdf, fs, plotting, wrote>>

\* run(), up to the existence check of the record
RunStart(r) ==
    /\ pc[r] = "idle"
    /\ self[r].cls = "MCFitter"
    /\ par'   = [par   EXCEPT ![r] = <<>>]
    /\ trace' = [trace EXCEPT ![r] = <<>>]
    /\ last'  = [op |-> "RunStart", r |-> r]
    /\ IF self[r].fit_cfg = None
       THEN /\ ret' = [ret EXCEPT ![r] = RetPdf]
            /\ UNCHANGED pc
       ELSE IF self[r].rdf = None
       THEN /\ ret' = [ret EXCEPT ![r] = Raised("ValueError")]
            /\ UNCHANGED pc
       ELSE /\ ret' = [ret EXCEPT ![r] = NotCalled]
            /\ pc'  = [pc EXCEPT ![r] =
                          IF ~ isfile(pars_path(self[r])) THEN "fresh" ELSE "cached"]
    /\ UNCHANGED <<self, pdf, fs, plotting, wrote>>

\* variant: the record is written before the plot, so a failing plot leaves it
RunFit_write_before_plot(r) ==
    /\ pc[r] = "fresh"
    /\ \E fail \in Failures, vals \in [Floating(pdf[r]) -> Values] :
       \E errs \in [DOMAIN vals -> Errors] :
         LET d == _get_data(self[r], fail)
             f == _fit(self[r], pdf[r], fail, vals, errs)
             g == MCFitter_plot_fit(self[r], fail)
         IN  IF d.raised # ""
             THEN /\ ret'   = [ret   EXCEPT ![r] = Raised(d.raised)]
                  /\ trace' = [trace EXCEPT ![r] = d.ev]
                  /\ pc'    = [pc    EXCEPT ![r] = "idle"]
                  /\ UNCHANGED <<pdf, par, fs>>
             ELSE IF f.raised # ""
             THEN /\ ret'   = [ret   EXCEPT ![r] = Raised(f.raised)]
                  /\ trace' = [trace EXCEPT ![r] = d.ev \o f.ev]
                  /\ pc'    = [pc    EXCEPT ![r] = "idle"]
                  /\ pdf'   = [pdf   EXCEPT ![r] = f.pdf]
                  /\ UNCHANGED <<par, fs>>
             ELSE IF g.raised # ""
             THEN /\ ret'   = [ret   EXCEPT ![r] = Raised(g.raised)]
                  /\ trace' = [trace EXCEPT ![r] = d.ev \o f.ev \o g.ev]
                  /\ pc'    = [pc    EXCEPT ![r] = "idle"]
                  /\ pdf'   = [pdf   EXCEPT ![r] = f.pdf]
                  /\ fs'    = [fs    EXCEPT ![pars_path(self[r])] = to_json(f.par)]
                  /\ UNCHANGED par
             ELSE /\ trace' = [trace EXCEPT ![r] = d.ev \o f.ev \o g.ev]
                  /\ pc'    = [pc    EXCEPT ![r] = "write"]
                  /\ pdf'   = [pdf   EXCEPT ![r] = f.pdf]
                  /\ par'   = [par   EXCEPT ![r] = f.par]
                  /\ UNCHANGED <<ret, fs>>
    /\ last' = [op |-> "RunFit", r |-> r]
    /\ UNCHANGED <<self, plotting, wrote>>

\* run(), record absent: _get_data, _fit, _plot_fit
RunFit(r) ==
    /\ pc[r] = "fresh"
    /\ \E fail \in Failures, vals \in [Floating(pdf[r]) -> Values] :
       \E errs \in [DOMAIN vals -> Errors] :
         LET d == _get_data(self[r], fail)
             f == _fit(self[r], pdf[r], fail, vals, errs)
             g == MCFitter_plot_fit(self[r], fail)
         IN  IF d.raised # ""
             THEN /\ ret'   = [ret   EXCEPT ![r] = Raised(d.raised)]
                  /\ trace' = [trace EXCEPT ![r] = d.ev]
                  /\ pc'    = [pc    EXCEPT ![r] = "idle"]
                  /\ UNCHANGED <<pdf, par>>
             ELSE IF f.raised # ""
             THEN /\ ret'   = [ret   EXCEPT ![r] = Raised(f.raised)]
                  /\ trace' = [trace EXCEPT ![r] = d.ev \o f.ev]
                  /\ pc'    = [pc    EXCEPT ![r] = "idle"]
                  /\ pdf'   = [pdf   EXCEPT ![r] = f.pdf]
                  /\ UNCHANGED par
             ELSE IF g.raised # ""
             THEN /\ ret'   = [ret   EXCEPT ![r] = Raised(g.raised)]
                  /\ trace' = [trace EXCEPT ![r] = d.ev \o f.ev \o g.ev]
                  /\ pc'    = [pc    EXCEPT ![r] = "idle"]
                  /\ pdf'   = [pdf   EXCEPT ![r] = f.pdf]
                  /\ UNCHANGED par
             ELSE /\ trace' = [trace EXCEPT ![r] = d.ev \o f.ev \o g.ev]
                  /\ pc'    = [pc    EXCEPT ![r] = "write"]
                  /\ pdf'   = [pdf   EXCEPT ![r] = f.pdf]
                  /\ par'   = [par   EXCEPT ![r] = f.par]
                  /\ UNCHANGED ret
    /\ last' = [op |-> "RunFit", r |-> r]
    /\ UNCHANGED <<self, fs, plotting, wrote>>

\* variant: the write does not replace a record that is already there
RunWrite_keep_existing(r) ==
    /\ pc[r] = "write"
    /\ fs'    = [fs    EXCEPT ![pars_path(self[r])] =
                               IF @ = NoFile THEN to_json(par[r]) ELSE @]
    /\ wrote' = [wrote EXCEPT ![pars_path(self[r])] =
                               Append(@, [by |-> r, par |-> par[r]])]
    /\ pdf'   = [pdf   EXCEPT ![r] = MCFitter_fix_tails(pdf[r], par[r])]
    /\ trace' = [trace EXCEPT ![r] = @ \o <<"to_json", "fix_tails">>]
    /\ ret'   = [ret   EXCEPT ![r] = RetPar(par[r])]
    /\ pc'    = [pc    EXCEPT ![r] = "idle"]
    /\ last'  = [op |-> "RunWrite", r |-> r]
    /\ UNCHANGED <<self, par, plotting>>

\* run(), record absent: par.to_json, then _fix_tails and return
RunWrite(r) ==
    /\ pc[r] = "write"
    /\ fs'    = [fs    EXCEPT ![pars_path(self[r])] = to_json(par[r])]
    /\ wrote' = [wrote EXCEPT ![pars_path(self[r])] =
                               Append(@, [by |-> r, par |-> par[r]])]
    /\ pdf'   = [pdf   EXCEPT ![r] = MCFitter_fix_tails(pdf[r], par[r])]
    /\ trace' = [trace EXCEPT ![r] = @ \o <<"to_json", "fix_tails">>]
    /\ ret'   = [ret   EXCEPT ![r] = RetPar(par[r])]
    /\ pc'    = [pc    EXCEPT ![r] = "idle"]
    /\ last'  = [op |-> "RunWrite", r |-> r]
    /\ UNCHANGED <<self, par, plotting>>

\* run(), record present: Parameter.from_json, then _fix_tails and return
RunLoad(r) ==
    /\ pc[r] = "cached"
    /\ LET p == from_json(fs[pars_path(self[r])])
       IN  /\ par'   = [par   EXCEPT ![r] = p]
           /\ pdf'   = [pdf   EXCEPT ![r] = MCFitter_fix_tails(pdf[r], p)]
           /\ ret'   = [ret   EXCEPT ![r] = RetPar(p)]
    /\ trace' = [trace EXCEPT ![r] = @ \o <<"from_json", "fix_tails">>]
    /\ pc'    = [pc    EXCEPT ![r] = "idle"]
    /\ last'  = [op |-> "RunLoad", r |-> r]
    /\ UNCHANGED <<self, fs, plotting, wrote>>

\* ---------------------------------------------------- FitComponent.get_pdf
GetPdf(r) ==
    /\ pc[r] = "idle"
    /\ self[r].cls = "FitComponent"
    /\ last' = [op |-> "GetPdf", r |-> r]
    /\ IF self[r].fit_cfg = None
       THEN /\ ret'   = [ret   EXCEPT ![r] = RetPdf]
            /\ trace' = [trace EXCEPT ![r] = <<>>]
            /\ par'   = [par   EXCEPT ![r] = <<>>]
            /\ UNCHANGED <<pdf, plotting>>
       ELSE IF self[r].rdf = None
       THEN /\ ret'   = [ret   EXCEPT ![r] = Raised("ValueError")]
            /\ trace' = [trace EXCEPT ![r] = <<>>]
            /\ par'   = [par   EXCEPT ![r] = <<>>]
            /\ UNCHANGED <<pdf, plotting>>
       ELSE \E fail \in Failures, vals \in [Floating(pdf[r]) -> Values] :
            \E errs \in [DOMAIN vals -> Errors] :
              LET d == _get_data(self[r], fail)
                  f == _fit(self[r], pdf[r], fail, vals, errs)
                  t == FitComponent_fix_tails(f.pdf, f.par)
                  g == FitComponent_plot_fit(self[r], plotting, fail)
              IN  IF d.raised # ""
                  THEN /\ ret'   = [ret   EXCEPT ![r] = Raised(d.raised)]
                       /\ trace' = [trace EXCEPT ![r] = d.ev]
                       /\ par'   = [par   EXCEPT ![r] = <<>>]
                       /\ UNCHANGED <<pdf, plotting>>
                  ELSE IF f.raised # ""
                  THEN /\ ret'   = [ret   EXCEPT ![r] = Raised(f.raised)]
                       /\ trace' = [trace EXCEPT ![r] = d.ev \o f.ev]
                       /\ par'   = [par   EXCEPT ![r] = <<>>]
                       /\ pdf'   = [pdf   EXCEPT ![r] = f.pdf]
                       /\ UNCHANGED plotting
                  ELSE /\ trace' = [trace EXCEPT ![r] =
                                       d.ev \o f.ev \o <<"fix_tails">> \o g.ev]
                       /\ par'   = [par   EXCEPT ![r] = f.par]
                       /\ pdf'   = [pdf   EXCEPT ![r] = t]
                       /\ plotting' = g.plotting
                       /\ ret'   = [ret   EXCEPT ![r] =
                                       IF g.raised # "" THEN Raised(g.raised)
                                       ELSE RetPdf]
    /\ UNCHANGED <<self, pc, fs, wrote>>

\* ---------------------------------------------------------- specifications
\* nothing constructed yet, no record on disk, the caller's plotting options
Init ==
    /\ self     = [r \in Runners |-> None]
    /\ pdf      = [r \in Runners |-> NewPdf({})]
    /\ pc       = [r \in Runners |-> "none"]
    /\ par      = [r \in Runners |-> <<>>]
    /\ trace    = [r \in Runners |-> <<>>]
    /\ ret      = [r \in Runners |-> NotCalled]
    /\ fs       = [p \in Paths |-> NoFile]
    /\ plotting \in PlotMaps
    /\ wrote    = [p \in Paths |-> <<>>]
    /\ last     = [op |-> "Init", r |-> "r1"]

\* one caller, one component at a time
Next ==
    \/ Construct("r1")
    \/ RunStart("r1")
    \/ RunFit("r1")
    \/ RunWrite("r1")
    \/ RunLoad("r1")
    \/ GetPdf("r1")

Spec == Init /\ [][Next]_vars

\* two MCFitter objects built on the same out_dir and name, each with its own
\* model, whose run() calls interleave
InitRace ==
    /\ self \in [Runners ->
                  {[cls     |-> "MCFitter",
                    name    |-> "signal",
                    fit_cfg |-> f,
                    plt_cfg |-> "ref",
                    out_dir |-> "d1",
                    rdf     |-> [cols |-> {"mass"}, ones |-> {}]] : f \in FitCfgs}]
    /\ pdf      = [r \in Runners |-> NewPdf({})]
    /\ pc       = [r \in Runners |-> "idle"]
    /\ par      = [r \in Runners |-> <<>>]
    /\ trace    = [r \in Runners |-> <<>>]
    /\ ret      = [r \in Runners |-> NotCalled]
    /\ fs       = [p \in Paths |-> NoFile]
    /\ plotting \in PlotMaps
    /\ wrote    = [p \in Paths |-> <<>>]
    /\ last     = [op |-> "Init", r |-> "r1"]

NextRace ==
    \E r \in Runners :
        \/ RunStart(r)
        \/ RunFit(r)
        \/ RunWrite(r)
        \/ RunLoad(r)

SpecRace == InitRace /\ [][NextRace]_vars

\* ------------------------------------------------------------- properties
Has(tr, ev) == \E i \in 1 .. Len(tr) : tr[i] = ev

IsMC(r) == pc[r] # "none" /\ self[r].cls = "MCFitter"

IsFC(r) == pc[r] # "none" /\ self[r].cls = "FitComponent"

\* an MCFitter that will fit: fitting section and dataframe present
Fits(r) == IsMC(r) /\ self[r].fit_cfg # None /\ self[r].rdf # None

\* the last call of r has returned a ParameterSet
Returned(r) == pc[r] = "idle" /\ ret[r].t = "par"

LoadTrace == <<"from_json", "fix_tails">>

\* C1: with the output directory touched by nothing else, the record is
\* written at most once; a run() that returns after writing it has minimized
\* once and left on disk the set it returns; a run() that finds it builds no
\* dataset, minimizes nothing, plots nothing and returns a set equal to the
\* one the writing run returned.
C1_CacheIdempotence ==
    \A r \in Runners :
        (Fits(r) /\ Returned(r)) =>
            LET p == pars_path(self[r]) IN
            /\ Len(wrote[p]) = 1
            /\ \/ /\ Has(trace[r], "to_json")
                  /\ Cardinality({i \in 1 .. Len(trace[r]) : trace[r][i] = "minimize"}) = 1
                  /\ wrote[p][1].par = ret[r].par
                  /\ fs[p] # NoFile
               \/ /\ trace[r] = LoadTrace
                  /\ ret[r].par = wrote[p][1].par

C1_Witness ==
    \E r \in Runners :
        /\ Fits(r) /\ Returned(r)
        /\ trace[r] = LoadTrace
        /\ DOMAIN ret[r].par = {sg, mu_flt}

\* C2: once run() has returned a ParameterSet P, from a fit or from the
\* record, every parameter of the model named in P and not ending with _flt
\* has P's value and is not floating.
C2_TailsFixed ==
    \A r \in Runners :
        (IsMC(r) /\ Returned(r)) =>
            \A n \in get_params(pdf[r]) :
                (n \in DOMAIN ret[r].par /\ ~ EndsWith(n, _flt)) =>
                    /\ pdf[r][n].value = ret[r].par[n][1]
                    /\ ~ pdf[r][n].floating

\* a record written by one run, reloaded by a later one onto a model whose sg
\* was still floating at its initial value
C2_Witness ==
    \E r \in Runners :
        /\ IsMC(r) /\ Returned(r)
        /\ trace[r] = LoadTrace
        /\ last = [op |-> "RunLoad", r |-> r]
        /\ sg \in DOMAIN ret[r].par
        /\ pdf[r][sg].value = ret[r].par[sg][1]
        /\ pdf[r][mu_flt].value = 0

\* C3: the tail-fixing step leaves alone, value and flag, every parameter
\* whose name ends with _flt or is not in the fitted set, in MCFitter (the
\* steps that end run()) and in FitComponent (get_pdf, where the minimizer
\* has put the fitted value in the floating parameters before); a floating
\* _flt parameter of a model is never made fixed.
C3_ReservedSuffix ==
    [][\A r \in Runners :
        /\ (last'.op \in {"RunWrite", "RunLoad"} /\ last'.r = r) =>
               \A n \in DOMAIN pdf[r] :
                   (EndsWith(n, _flt) \/ n \notin DOMAIN par'[r]) =>
                       pdf'[r][n] = pdf[r][n]
        /\ (last'.op = "GetPdf" /\ last'.r = r /\ Has(trace'[r], "fix_tails")) =>
               \A n \in DOMAIN pdf[r] :
                   (EndsWith(n, _flt) \/ n \notin DOMAIN par'[r]) =>
                       /\ pdf'[r][n].floating = pdf[r][n].floating
                       /\ pdf'[r][n].value = IF n \in DOMAIN par'[r]
                                             THEN par'[r][n][1]
                                             ELSE pdf[r][n].value
        /\ (last'.op # "Construct") =>
               \A n \in DOMAIN pdf[r] :
                   (EndsWith(n, _flt) /\ pdf[r][n].floating) => pdf'[r][n].floating
      ]_vars

\* a record naming mu_flt was applied and mu_flt kept another value, floating
C3_Witness ==
    \E r \in Runners :
        /\ last = [op |-> "RunLoad", r |-> r]
        /\ mu_flt \in DOMAIN par[r]
        /\ pdf[r][mu_flt].value # par[r][mu_flt][1]
        /\ pdf[r][mu_flt].floating
        /\ sg \notin DOMAIN par[r]
        /\ pdf[r][sg].floating

\* C4: a call that ends with the unsupported-method error has not invoked
\* the minimizer.
C4_RejectBeforeMinimize ==
    \A r \in Runners :
        ret[r] = Raised("NotImplementedError") => ~ Has(trace[r], "minimize")

\* C5: the record changes only in the step of run() that follows a completed
\* dataset build, fit and plot, and holds the set that run returns; a run()
\* that raised has written nothing, so a record absent before it is absent
\* after it.
C5_WriteAfterSuccess ==
    /\ [][(fs' # fs) =>
            /\ last'.op = "RunWrite"
            /\ LET r == last'.r
                   p == pars_path(self[r])
               IN  /\ pc[r] = "write"
                   /\ trace[r] = IF self[r].plt_cfg = NoneStr
                                 THEN <<"data", "minimize", "hesse">>
                                 ELSE <<"data", "minimize", "hesse", "plot">>
                   /\ fs'[p] = to_json(par[r])
                   /\ ret'[r] = RetPar(par[r])
          ]_vars
    /\ [](\A r \in Runners :
            (IsMC(r) /\ ret[r].t = "err") =>
                /\ pc[r] = "idle"
                /\ ~ Has(trace[r], "to_json")
                /\ (Has(trace[r], "data") => fs[pars_path(self[r])] = NoFile))

\* the plot failed after a successful fit and there is no record
C5_Witness ==
    \E r \in Runners :
        /\ IsMC(r)
        /\ ret[r] = Raised("plot")
        /\ trace[r] = <<"data", "minimize", "hesse", "plot">>
        /\ fs[pars_path(self[r])] = NoFile

\* C6: without a fitting section run() and get_pdf() return the model and
\* change nothing: no external call, no parameter, record or option touched.
C6_PassThrough ==
    [][\A r \in Runners :
        (/\ last'.op \in {"RunStart", "GetPdf"}
         /\ last'.r = r
         /\ self[r].fit_cfg = None) =>
            /\ ret'[r] = RetPdf
            /\ trace'[r] = <<>>
            /\ pdf' = pdf
            /\ fs' = fs
            /\ plotting' = plotting
            /\ pc' = pc
            /\ self' = self
      ]_vars

\* pass-through with no dataset, no out_dir and a record on disk
C6_Witness ==
    \E r \in Runners :
        /\ IsMC(r)
        /\ last = [op |-> "RunStart", r |-> r]
        /\ self[r].fit_cfg = None
        /\ self[r].rdf = None
        /\ self[r].out_dir = NoneStr
        /\ fs[<<"d1", "signal">>] # NoFile
        /\ ret[r] = RetPdf
        /\ \E n \in DOMAIN pdf[r] : pdf[r][n].floating

\* C7: past the existence check, run() fits exactly when there is no record;
\* with a record it returns the set stored there after reading it and fixing
\* the tails, whatever its error_method, plotting section, dataframe or model.
C7_ExistenceOnly ==
    \A r \in Runners :
        Fits(r) =>
            LET p == pars_path(self[r]) IN
            /\ pc[r] = "cached" => fs[p] # NoFile
            /\ pc[r] \in {"fresh", "write"} => fs[p] = NoFile
            /\ (/\ pc[r] = "idle"
                /\ ret[r] # NotCalled
                /\ fs[p] # NoFile
                /\ ~ Has(trace[r], "to_json")) =>
                   /\ trace[r] = LoadTrace
                   /\ ret[r] = RetPar(from_json(fs[p]))

\* a record written under minuit_hesse is reused by a run configured with an
\* unsupported method, no plotting and a model at other values
C7_Witness ==
    \E r \in Runners :
        /\ Fits(r) /\ Returned(r)
        /\ trace[r] = LoadTrace
        /\ self[r].fit_cfg.error_method = "bootstrap"
        /\ mu_flt \in DOMAIN ret[r].par
        /\ pdf[r][mu_flt].value # ret[r].par[mu_flt][1]

\* C8: in interleaved runs the record is the one of the last writer, and a
\* runner that fitted returns and applies the set it fitted itself.
C8_LastWriterWins ==
    /\ \A p \in Paths :
          /\ (fs[p] = NoFile) <=> (wrote[p] = <<>>)
          /\ fs[p] # NoFile => fs[p] = to_json(wrote[p][Len(wrote[p])].par)
    /\ \A r \in Runners :
          (Returned(r) /\ Has(trace[r], "to_json")) =>
              /\ ret[r].par = par[r]
              /\ \E i \in 1 .. Len(wrote[pars_path(self[r])]) :
                    wrote[pars_path(self[r])][i] = [by |-> r, par |-> par[r]]
              /\ \A n \in DOMAIN par[r] :
                    ~ EndsWith(n, _flt) => pdf[r][n].value = par[r][n][1]

\* both runners found no record, fitted and wrote; the first writer holds a
\* set that is not the persisted one
C8_Witness ==
    \E p \in Paths :
        /\ Len(wrote[p]) = 2
        /\ wrote[p][1].by # wrote[p][2].by
        /\ LET a == wrote[p][1].by IN
           /\ Returned(a) /\ Has(trace[a], "to_json")
           /\ ret[a].par # from_json(fs[p])
           /\ pdf[a][sg].value # from_json(fs[p])[sg][1]
        /\ \A r \in Runners : Returned(r) /\ Has(trace[r], "minimize")

\* C9: with a fitting section and no dataframe, run() raises the data-missing
\* error only when there is no record at the canonical path.
C9_DataMissingOnlyWhenFresh ==
    \A r \in Runners :
        (/\ IsMC(r)
         /\ self[r].fit_cfg # None
         /\ self[r].rdf = None
         /\ ret[r] = Raised("ValueError")) =>
            fs[pars_path(self[r])] = NoFile

\* C10: the options map only ever loses plot_dir, and loses it in a
\* get_pdf() that has fitted and applied the tail step; such a get_pdf()
\* takes the key out when it is there (the renderer gets the rest) and raises
\* KeyError after the fit and the tail step when it is gone; the stored name
\* and fitting section change only by construction; no MCFitter step changes
\* the options.
C10_OneShotPlotDir ==
    [][/\ DOMAIN plotting' \subseteq DOMAIN plotting
       /\ \A k \in DOMAIN plotting \ {"plot_dir"} :
             k \in DOMAIN plotting' /\ plotting'[k] = plotting[k]
       /\ (plotting' # plotting) =>
             /\ last'.op = "GetPdf"
             /\ Has(trace'[last'.r], "fix_tails")
       /\ \A r \in Runners :
             /\ (/\ last'.op = "GetPdf"
                 /\ last'.r = r
                 /\ self[r].plt_cfg # NoneStr
                 /\ Has(trace'[r], "fix_tails")) =>
                    IF "plot_dir" \in DOMAIN plotting
                    THEN /\ "plot_dir" \notin DOMAIN plotting'
                         /\ trace'[r] = <<"data", "minimize", "hesse", "fix_tails", "plot">>
                         /\ ret'[r] \in {RetPdf, Raised("plot")}
                    ELSE /\ plotting' = plotting
                         /\ trace'[r] = <<"data", "minimize", "hesse", "fix_tails">>
                         /\ ret'[r] = Raised("KeyError")
             /\ (last'.op # "Construct" /\ pc[r] # "none") =>
                    /\ self'[r].name = self[r].name
                    /\ self'[r].fit_cfg = self[r].fit_cfg
      ]_vars

\* a get_pdf() after the key was consumed: fitted, tails applied, KeyError
C10_Witness ==
    \E r \in Runners :
        /\ IsFC(r)
        /\ plotting = [nbins |-> 50, stacked |-> TRUE]
        /\ ret[r] = Raised("KeyError")
        /\ trace[r] = <<"data", "minimize", "hesse", "fix_tails">>

====
